---- MODULE Spec2Model ----
(***************************************************************************)
(* DemiEngine: the configuration validation, seeded randomization, asset   *)
(* store and run builder of the playable-ad generator (app.py,             *)
(* randomizer.py, schemas.py).                                             *)
(*                                                                         *)
(* Two specifications share this module:                                   *)
(*   SpecRand  the /api/randomize handler and the three randomizers        *)
(*   Spec      the file system: asset store, history backups, run          *)
(*             directories, as written by startup, approve, replace and    *)
(*             generate                                                    *)
(* Every request handler is an `async def` whose body never awaits, so a   *)
(* handler runs to completion on the event loop: one action per handler.   *)
(***************************************************************************)
EXTENDS Integers, Sequences, FiniteSets, TLC

VARIABLES
    cur,        \* the section and raw configuration the client submits to /api/randomize
    req,        \* the last /api/randomize request: section, config, variation, seed
    res,        \* the response to it
    rng,        \* state of the generator object built by the last randomize_* call
    first,      \* an earlier randomize call kept for comparison (request and response)
    assets,     \* static/assets/project: slot name -> image file
    history,    \* static/assets/history: <<slot, timestamp>> -> image file
    runs,       \* runs/: run id -> (file name -> content)
    now,        \* wall clock, in whole seconds
    defaults,   \* defaults/visual.json as found by startup
    template,   \* TRUE when static/engine_template.html exists
    last,       \* the last file-system operation and its outcome
    overwritten,\* <<slot, file>> for every canonical file approve or replace has overwritten
    script,     \* scripts/generate_default_assets.py: position in its loop, its timestamp
    ops         \* number of file-system operations so far

rvars == <<cur, req, res, rng, first>>
fvars == <<assets, history, runs, now, defaults, template, last, overwritten, script, ops>>
vars == <<cur, req, res, rng, first, assets, history, runs, now, defaults, template, last,
          overwritten, script, ops>>

(***************************************************************************)
(* Bounds of the model.                                                    *)
(***************************************************************************)
MaxSeed == 3        \* seeds 0..MaxSeed
MaxLevels == 2      \* a levels configuration holds 0..MaxLevels levels
MaxTime == 2        \* the clock runs over ticks 0..MaxTime
MaxOps == 2         \* a behaviour holds at most MaxOps file-system operations

\* Variation amounts in tenths: 0.0, 0.3, 0.5 and 1.0, and outside [0,1] the
\* amounts -0.3 and 1.5 (RandomizeRequest.variation is a plain float).
Variations == {0, 3, 5, 10, -3, 15}
VarDen == 10

(***************************************************************************)
(* random.Random, abstracted: a generator is a deterministic stream fixed  *)
(* by its seed.  The stream is a full-period congruential sequence over    *)
(* 0..RngModulus-1; random() is raw/RngModulus in [0,1).                   *)
(***************************************************************************)
RngModulus == 16

RngStep(g) == (5 * g + 3) % RngModulus

\* the shared-generator variant: the call continues the previous call's generator
SharedGenerator(seed) == rng

\* random.Random(seed)
Random(seed) == seed % RngModulus

\* rng.random() < num/den, for the generator state g reached by the draw
Below(g, num, den) == g * den < num * RngModulus

\* the index drawn by rng.choice / rng.randint over n values: 0..n-1
RandBelow(g, n) == (g * n) \div RngModulus

\* int(x) of the float num/den: truncation toward zero
Trunc(num, den) == IF num >= 0 THEN num \div den ELSE -((-num) \div den)

Max2(a, b) == IF a >= b THEN a ELSE b
Min2(a, b) == IF a <= b THEN a ELSE b

(***************************************************************************)
(* randomizer.py helpers.  Each takes the generator state and returns the  *)
(* value together with the generator state after its draws.  A variation   *)
(* is the fraction num/den.                                                *)
(***************************************************************************)
Others(options, current) == SelectSeq(options, LAMBDA o : o # current)

_vary_literal(g, current, options, num, den) ==
    LET g1 == RngStep(g)
        others == Others(options, current)
    IN  IF Below(g1, num, den)
        THEN IF others # <<>>
             THEN LET g2 == RngStep(g1)
                  IN  [val |-> others[RandBelow(g2, Len(others)) + 1], rng |-> g2]
             ELSE [val |-> current, rng |-> g1]
        ELSE [val |-> current, rng |-> g1]

_vary_bool(g, current, num, den) ==
    LET g1 == RngStep(g)
    IN  [val |-> IF Below(g1, num, den) THEN ~current ELSE current, rng |-> g1]

\* the whole width of the range, whatever the variation
DeltaWhole(low, high, num, den) == high - low

\* delta = int((high - low) * variation)
Delta(low, high, num, den) == Trunc((high - low) * num, den)

\* the unclamped variant of _vary_int
_vary_int_unclamped(g, current, low, high, num, den) ==
    LET delta == Delta(low, high, num, den)
        g1 == RngStep(g)
    IN  [val |-> current + (RandBelow(g1, 2 * delta + 1) - delta), rng |-> g1]

\* rng.randint(-delta, delta) raises ValueError when delta < 0: callers test
\* Delta first (see randomize_levels).
_vary_int(g, current, low, high, num, den) ==
    LET delta == Delta(low, high, num, den)
        g1 == RngStep(g)
        new_val == current + (RandBelow(g1, 2 * delta + 1) - delta)
    IN  [val |-> Max2(low, Min2(high, new_val)), rng |-> g1]

(***************************************************************************)
(* Colours.  A colour field holds text; the model keeps a parseable        *)
(* "#rrggbb" as its channel triple <<r, g, b>> and every text that         *)
(* _hex_to_hsl cannot parse as Unparseable.  Float arithmetic is fixed     *)
(* point in units of 1/Scale.                                              *)
(***************************************************************************)
Scale == 1000000

Unparseable == <<-1, -1, -1>>

Parses(hex_color) == hex_color[1] >= 0

\* floor(a * b / c) without leaving 32 bits, for 0 <= a, b and a * b < 2 * 10^12
MulDiv(a, b, c) ==
    LET a1 == a \div 1000
        a0 == a % 1000
        p == a1 * b
    IN  (p \div c) * 1000 + ((p % c) * 1000 + a0 * b) \div c

Max3(a, b, c) == Max2(a, Max2(b, c))
Min3(a, b, c) == Min2(a, Min2(b, c))

ONE_THIRD == Scale \div 3
ONE_SIXTH == Scale \div 6
TWO_THIRD == (2 * Scale) \div 3

\* colorsys.rgb_to_hls on channels r/255, g/255, b/255: <<h, l, s>>
rgb_to_hls(r, g, b) ==
    LET maxc == Max3(r, g, b)
        minc == Min3(r, g, b)
        sumc == maxc + minc
        rangec == maxc - minc
        l == (sumc * Scale) \div 510
    IN  IF minc = maxc THEN <<0, l, 0>>
        ELSE LET s == IF sumc <= 255 THEN (rangec * Scale) \div sumc
                      ELSE (rangec * Scale) \div (510 - sumc)
                 rc == ((maxc - r) * Scale) \div rangec
                 gc == ((maxc - g) * Scale) \div rangec
                 bc == ((maxc - b) * Scale) \div rangec
                 h == IF r = maxc THEN bc - gc
                      ELSE IF g = maxc THEN 2 * Scale + rc - bc
                      ELSE 4 * Scale + gc - rc
             IN  <<(h \div 6) % Scale, l, s>>

\* colorsys._v
HlsV(m1, m2, hue0) ==
    LET hue == hue0 % Scale
    IN  IF hue < ONE_SIXTH THEN m1 + MulDiv(m2 - m1, hue * 6, Scale)
        ELSE IF hue < Scale \div 2 THEN m2
        ELSE IF hue < TWO_THIRD THEN m1 + MulDiv(m2 - m1, (TWO_THIRD - hue) * 6, Scale)
        ELSE m1

\* colorsys.hls_to_rgb: <<r, g, b>> in units of 1/Scale
hls_to_rgb(h, l, s) ==
    IF s = 0 THEN <<l, l, l>>
    ELSE LET m2 == IF l <= Scale \div 2 THEN l + MulDiv(l, s, Scale)
                   ELSE l + s - MulDiv(l, s, Scale)
             m1 == 2 * l - m2
         IN  <<HlsV(m1, m2, h + ONE_THIRD), HlsV(m1, m2, h), HlsV(m1, m2, h - ONE_THIRD)>>

\* <<h, s, l>> of a parseable colour
_hex_to_hsl(hex_color) ==
    LET hls == rgb_to_hls(hex_color[1], hex_color[2], hex_color[3])
    IN  <<hls[1], hls[3], hls[2]>>

\* "#{:02x}{:02x}{:02x}".format(int(r * 255), int(g * 255), int(b * 255))
_hsl_to_hex(h, s, l) ==
    LET rgb == hls_to_rgb(h, l, s)
    IN  <<(rgb[1] * 255) \div Scale, (rgb[2] * 255) \div Scale, (rgb[3] * 255) \div Scale>>

\* rng.uniform(-a, a) = -a + 2a * random(), a in units of 1/Scale
Uniform(g, a) == (2 * a * g) \div RngModulus - a

\* a colour that does not parse is replaced by black
_vary_color_default(g, hex_color, v) ==
    IF ~Parses(hex_color)
    THEN [val |-> <<0, 0, 0>>, rng |-> g]
    ELSE LET hsl == _hex_to_hsl(hex_color)
             g1 == RngStep(g)
             g2 == RngStep(g1)
             g3 == RngStep(g2)
             h == (hsl[1] + Uniform(g1, v * 30000)) % Scale
             s == Max2(Scale \div 10, Min2(Scale, hsl[2] + Uniform(g2, v * 20000)))
             l == Max2(Scale \div 10, Min2((9 * Scale) \div 10, hsl[3] + Uniform(g3, v * 15000)))
         IN  [val |-> _hsl_to_hex(h, s, l), rng |-> g3]

\* variation is v/VarDen; v * 30000 is variation * 0.3 in units of 1/Scale
_vary_color(g, hex_color, v) ==
    IF ~Parses(hex_color)
    THEN [val |-> hex_color, rng |-> g]
    ELSE LET hsl == _hex_to_hsl(hex_color)
             g1 == RngStep(g)
             g2 == RngStep(g1)
             g3 == RngStep(g2)
             h == (hsl[1] + Uniform(g1, v * 30000)) % Scale
             s == Max2(Scale \div 10, Min2(Scale, hsl[2] + Uniform(g2, v * 20000)))
             l == Max2(Scale \div 10, Min2((9 * Scale) \div 10, hsl[3] + Uniform(g3, v * 15000)))
         IN  [val |-> _hsl_to_hex(h, s, l), rng |-> g3]

(***************************************************************************)
(* schemas.py: validation.  A raw input is a record; validation keeps the  *)
(* declared fields, fills the defaults of the missing ones and rejects     *)
(* enum fields outside their Literal and missing required fields.          *)
(***************************************************************************)
Fill(dflt, raw) == [f \in DOMAIN dflt |-> IF f \in DOMAIN raw THEN raw[f] ELSE dflt[f]]

InputTypes == <<"tap", "drag", "both">>
MoveSpeeds == <<"slow", "medium", "fast">>
AnimationTypes == <<"slide", "flip", "instant">>
EnterAnimation == <<"shuffle_in", "drop_down", "bulk">>
CardBackPatterns == <<"solid", "stripes", "dots">>
UiThemes == <<"dark", "classic", "minimal">>

Range(seq) == {seq[i] : i \in 1..Len(seq)}

MechanicsDefaults ==
    [mechanics_version |-> "1.0", genre |-> "solitaire_simplified",
     input_type |-> "tap", card_move_speed |-> "medium", animation_type |-> "flip",
     highlight_valid_moves |-> TRUE, auto_complete_enabled |-> FALSE, notes |-> ""]

\* the fields of a raw mechanics input that fail validation
MechanicsErrors(raw) ==
    {f \in {"input_type"} \cap DOMAIN raw : raw[f] \notin Range(InputTypes)}
    \cup {f \in {"card_move_speed"} \cap DOMAIN raw : raw[f] \notin Range(MoveSpeeds)}
    \cup {f \in {"animation_type"} \cap DOMAIN raw : raw[f] \notin Range(AnimationTypes)}

MechanicsConfig(raw) == Fill(MechanicsDefaults, raw)

\* origin_x and origin_y in hundredths
GridDefaults == [cell_width |-> 76, cell_height |-> 100, origin_x |-> 50, origin_y |-> 18]

TimingsDefaults ==
    [win_screen_duration_ms |-> 2000, fail_screen_duration_ms |-> 2000,
     level_transition_duration_ms |-> 1000]

\* foundation_card and tableau are required: their entries here are never used
LayoutDefaults ==
    [foundation_card |-> "", tableau |-> <<>>, draw_pile |-> <<>>, grid |-> GridDefaults]

\* level_id and layout are required
LevelDefaults ==
    [level_id |-> 0, game_type |-> "solitaire_simplified", show_draw_pile |-> TRUE,
     enter_animation |-> "shuffle_in", enter_duration_ms |-> 1200,
     layout |-> LayoutDefaults, timings |-> TimingsDefaults]

\* total_levels and levels are required
LevelsDefaults ==
    [levels_version |-> "1.0", genre |-> "solitaire_simplified", testing_mode |-> FALSE,
     total_levels |-> 0, target_url |-> "https://yourapp.link/download",
     cta_text |-> "Play Now!", levels |-> <<>>]

LevelErrors(level) ==
    {f \in {"level_id", "layout"} : f \notin DOMAIN level}
    \cup {f \in {"enter_animation"} \cap DOMAIN level : level[f] \notin Range(EnterAnimation)}
    \cup (IF "layout" \in DOMAIN level
          THEN {f \in {"foundation_card", "tableau"} : f \notin DOMAIN level.layout}
          ELSE {})

\* the fields of a raw levels input that fail validation: <<0, f>> for field f
\* of the section, <<i, f>> for field f of level i
LevelsErrors(raw) ==
    {<<0, f>> : f \in {"total_levels", "levels"} \ DOMAIN raw}
    \cup (IF "levels" \in DOMAIN raw
          THEN UNION {{<<i, f>> : f \in LevelErrors(raw.levels[i])} : i \in 1..Len(raw.levels)}
          ELSE {})

LevelLayout(raw) ==
    LET l == Fill(LayoutDefaults, raw)
    IN  [l EXCEPT !.grid = Fill(GridDefaults, l.grid)]

LevelConfig(raw) ==
    LET l == Fill(LevelDefaults, raw)
    IN  [l EXCEPT !.layout = LevelLayout(l.layout), !.timings = Fill(TimingsDefaults, l.timings)]

LevelsConfig(raw) ==
    LET c == Fill(LevelsDefaults, raw)
    IN  [c EXCEPT !.levels = [i \in 1..Len(c.levels) |-> LevelConfig(c.levels[i])]]

\* None of an Optional field
None == [none |-> TRUE]

VisualDefaults ==
    [visual_version |-> "1.0",
     background_color |-> <<26, 71, 42>>, table_felt_color |-> <<21, 128, 61>>,
     card_face_color |-> <<255, 255, 255>>, card_back_color |-> <<26, 35, 126>>,
     card_back_pattern |-> "solid", card_border_color |-> <<51, 51, 51>>,
     highlight_color |-> <<255, 235, 59>>, button_color |-> <<255, 87, 34>>,
     button_text_color |-> <<255, 255, 255>>, primary_text_color |-> <<255, 255, 255>>,
     font_family |-> "Arial, sans-serif", ui_theme |-> "dark",
     card_width |-> None, card_height |-> None,
     card_red_color |-> <<204, 34, 34>>, card_black_color |-> <<17, 17, 17>>,
     card_border_width |-> 15, card_corner_radius |-> 6,
     card_font_family |-> "Arial", card_font_weight |-> "bold",
     card_corner_font_size |-> 11, card_face_font_size |-> 28,
     card_move_speed_slow |-> 600, card_move_speed_medium |-> 350,
     card_move_speed_fast |-> 180,
     background_image |-> None, card_back_image |-> None, felt_image |-> None]

VisualErrors(raw) ==
    {f \in {"card_back_pattern"} \cap DOMAIN raw : raw[f] \notin Range(CardBackPatterns)}
    \cup {f \in {"ui_theme"} \cap DOMAIN raw : raw[f] \notin Range(UiThemes)}

VisualConfig(raw) == Fill(VisualDefaults, raw)

(***************************************************************************)
(* randomizer.py: the per-section randomizers.  Each returns               *)
(* [ok, error, config, rng]: the configuration it returns or the exception *)
(* it raises, and the state of its own generator.  v is the variation in   *)
(* units of 1/VarDen; variation * 0.4 is the fraction (4 * v)/100.         *)
(***************************************************************************)
NoConfig == <<>>

Returned(config, g) == [ok |-> TRUE, error |-> "", config |-> config, rng |-> g]
Raised(error, g) == [ok |-> FALSE, error |-> error, config |-> NoConfig, rng |-> g]

\* config.game_type is read while the keyword arguments are evaluated, before
\* any draw: MechanicsConfig declares no such field.
randomize_mechanics(config, v, seed) ==
    LET g0 == Random(seed)
    IN  IF "game_type" \notin DOMAIN config
        THEN Raised("AttributeError", g0)
        ELSE LET i == _vary_literal(g0, config.input_type, InputTypes, v, VarDen)
                 m == _vary_literal(i.rng, config.card_move_speed, MoveSpeeds, v, VarDen)
                 a == _vary_literal(m.rng, config.animation_type, AnimationTypes, v, VarDen)
                 h == _vary_bool(a.rng, config.highlight_valid_moves, 4 * v, 100)
                 c == _vary_bool(h.rng, config.auto_complete_enabled, 2 * v, 100)
             IN  Returned(MechanicsConfig(
                     [mechanics_version |-> config.mechanics_version,
                      genre |-> config.genre,
                      game_type |-> config.game_type,
                      input_type |-> i.val,
                      card_move_speed |-> m.val,
                      animation_type |-> a.val,
                      highlight_valid_moves |-> h.val,
                      auto_complete_enabled |-> c.val,
                      notes |-> config.notes]), c.rng)

color_fields ==
    <<"background_color", "table_felt_color", "card_face_color",
      "card_back_color", "card_border_color", "highlight_color",
      "button_color", "button_text_color", "primary_text_color">>

\* the loop over color_fields from field i on
RECURSIVE VaryColors(_, _, _, _)
VaryColors(data, i, g, v) ==
    IF i > Len(color_fields) THEN [val |-> data, rng |-> g]
    ELSE LET c == _vary_color(g, data[color_fields[i]], v)
         IN  VaryColors([data EXCEPT ![color_fields[i]] = c.val], i + 1, c.rng, v)

randomize_visual(config, v, seed) ==
    LET g0 == Random(seed)
        cols == VaryColors(config, 1, g0, v)
        p == _vary_literal(cols.rng, config.card_back_pattern, CardBackPatterns, 5 * v, 100)
        t == _vary_literal(p.rng, config.ui_theme, UiThemes, 5 * v, 100)
    IN  Returned(VisualConfig([cols.val EXCEPT !.card_back_pattern = p.val, !.ui_theme = t.val]),
                 t.rng)

\* the layout that omits draw_pile, which then takes its default
NewLayoutNoPile(level, new_grid) ==
    LevelLayout([foundation_card |-> level.layout.foundation_card,
                 tableau |-> level.layout.tableau,
                 grid |-> new_grid])

NewLayout(level, new_grid) ==
    LevelLayout([foundation_card |-> level.layout.foundation_card,
                 tableau |-> level.layout.tableau,
                 draw_pile |-> level.layout.draw_pile,
                 grid |-> new_grid])

\* one iteration of the loop over config.levels
VaryLevel(level, g, v) ==
    LET a == _vary_literal(g, level.enter_animation, EnterAnimation, 6 * v, 100)
        d == _vary_int(a.rng, level.enter_duration_ms, 400, 2000, 4 * v, 100)
        w == _vary_int(d.rng, level.layout.grid.cell_width, 56, 110, 3 * v, 100)
        h == _vary_int(w.rng, level.layout.grid.cell_height, 76, 150, 3 * v, 100)
        new_grid == [cell_width |-> w.val, cell_height |-> h.val,
                     origin_x |-> level.layout.grid.origin_x,
                     origin_y |-> level.layout.grid.origin_y]
        win == _vary_int(h.rng, level.timings.win_screen_duration_ms, 1000, 5000, 4 * v, 100)
        fail == _vary_int(win.rng, level.timings.fail_screen_duration_ms, 1000, 5000, 4 * v, 100)
        tr == _vary_int(fail.rng, level.timings.level_transition_duration_ms, 500, 3000, 4 * v, 100)
        new_timings == [win_screen_duration_ms |-> win.val,
                        fail_screen_duration_ms |-> fail.val,
                        level_transition_duration_ms |-> tr.val]
    IN  [val |-> LevelConfig(
                    [level_id |-> level.level_id,
                     game_type |-> level.game_type,
                     show_draw_pile |-> level.show_draw_pile,
                     enter_animation |-> a.val,
                     enter_duration_ms |-> d.val,
                     layout |-> NewLayout(level, new_grid),
                     timings |-> new_timings]),
         rng |-> tr.rng]

\* the loop over config.levels from level i on, new_levels so far
RECURSIVE VaryLevels(_, _, _, _, _)
VaryLevels(levels, i, new_levels, g, v) ==
    IF i > Len(levels) THEN [val |-> new_levels, rng |-> g]
    ELSE LET l == VaryLevel(levels[i], g, v)
         IN  VaryLevels(levels, i + 1, Append(new_levels, l.val), l.rng, v)

\* rng.randint(-delta, delta) raises ValueError for delta < 0, in the first
\* iteration of the loop.
randomize_levels(config, v, seed) ==
    LET g0 == Random(seed)
    IN  IF Len(config.levels) > 0 /\ Delta(400, 2000, 4 * v, 100) < 0
        THEN Raised("ValueError", RngStep(g0))
        ELSE LET ls == VaryLevels(config.levels, 1, <<>>, g0, v)
             IN  Returned(LevelsConfig(
                     [levels_version |-> config.levels_version,
                      genre |-> config.genre,
                      testing_mode |-> config.testing_mode,
                      total_levels |-> config.total_levels,
                      target_url |-> config.target_url,
                      cta_text |-> config.cta_text,
                      levels |-> ls.val]), ls.rng)

(***************************************************************************)
(* Inputs of /api/randomize: raw configurations, valid and invalid.        *)
(***************************************************************************)
Sections == {"mechanics", "levels", "visual"}

MechanicsInputs ==
    {[input_type |-> i, highlight_valid_moves |-> h, game_type |-> "solitaire_simplified"] :
        i \in {"tap", "both"}, h \in BOOLEAN}
    \cup {MechanicsDefaults, [input_type |-> "swipe", animation_type |-> "spin"]}

\* enter_duration_ms, cell_width, cell_height, win, fail and transition
\* durations: on the lower bounds, the defaults, on the upper bounds, below
\* and above the ranges (the schema declares no range for them)
IntProfiles ==
    << <<400, 56, 76, 1000, 1000, 500>>,
       <<1200, 76, 100, 2000, 2000, 1000>>,
       <<2000, 110, 150, 5000, 5000, 3000>>,
       <<100, 20, 30, 200, 0, 100>>,
       <<9000, 200, 300, 6000, 7000, 4000>> >>

Card(k) == <<"7H", "6S", "8D", "9C", "10D", "JS", "QH", "KD">>[((k - 1) % 8) + 1]

LevelSample(i, a, p) ==
    LET prof == IntProfiles[((p + i) % Len(IntProfiles)) + 1]
    IN  [level_id |-> i, game_type |-> "solitaire_simplified",
         show_draw_pile |-> (i % 2 = 1),
         enter_animation |-> EnterAnimation[((a + i) % 3) + 1],
         enter_duration_ms |-> prof[1],
         layout |-> [foundation_card |-> Card(i),
                     tableau |-> <<[code |-> Card(i + 1), face_up |-> TRUE, col |-> 0, row |-> 0],
                                   [code |-> Card(i + 2), face_up |-> FALSE, col |-> i, row |-> 1]>>,
                     draw_pile |-> <<Card(i + 3)>>,
                     grid |-> [cell_width |-> prof[2], cell_height |-> prof[3],
                               origin_x |-> 50, origin_y |-> 18 + i]],
         timings |-> [win_screen_duration_ms |-> prof[4],
                      fail_screen_duration_ms |-> prof[5],
                      level_transition_duration_ms |-> prof[6]]]

LevelsSample(n, a, p) ==
    [levels_version |-> "1.0", genre |-> "solitaire_simplified", testing_mode |-> (a = 1),
     total_levels |-> n, target_url |-> "https://example.test/get", cta_text |-> "Install",
     levels |-> [i \in 1..n |-> LevelSample(i, a, p)]]

\* a valid input that leaves every optional field to its default
MinimalLevels ==
    [total_levels |-> 1,
     levels |-> <<[level_id |-> 1, layout |-> [foundation_card |-> "7H", tableau |-> <<>>]]>>]

InvalidLevels ==
    {[levels |-> <<>>],
     [total_levels |-> 1,
      levels |-> <<[level_id |-> 1, enter_animation |-> "spin"]>>]}

LevelsInputs ==
    {LevelsSample(n, a, p) : n \in 0..MaxLevels, a \in 0..2, p \in 0..(Len(IntProfiles) - 1)}
    \cup {MinimalLevels} \cup InvalidLevels

\* the nine color_fields of three palettes
Palettes ==
    << << <<53, 119, 28>>, <<10, 26, 40>>, <<255, 255, 255>>, <<52, 90, 158>>, <<51, 51, 51>>,
          <<33, 10, 4>>, <<31, 48, 101>>, <<255, 255, 255>>, <<128, 128, 128>> >>,
       << Unparseable, <<0, 0, 0>>, <<255, 255, 255>>, Unparseable, <<63, 108, 121>>,
          <<23, 7, 2>>, <<53, 119, 28>>, <<0, 0, 0>>, <<255, 255, 255>> >>,
       << <<10, 26, 40>>, Unparseable, <<10, 26, 40>>, <<10, 26, 40>>, Unparseable,
          <<10, 26, 40>>, Unparseable, <<10, 26, 40>>, Unparseable >> >>

VisualSample(pal, k) ==
    [f \in DOMAIN VisualDefaults |->
        IF \E i \in 1..Len(color_fields) : color_fields[i] = f
        THEN Palettes[pal][CHOOSE i \in 1..Len(color_fields) : color_fields[i] = f]
        ELSE IF f = "card_back_pattern" THEN CardBackPatterns[k + 1]
        ELSE IF f = "ui_theme" THEN UiThemes[((k + 1) % 3) + 1]
        ELSE VisualDefaults[f]]

VisualInputs ==
    {VisualSample(pal, k) : pal \in 1..Len(Palettes), k \in 0..2}
    \cup {[ui_theme |-> "neon"]}

Inputs(section) ==
    CASE section = "mechanics" -> MechanicsInputs
      [] section = "levels" -> LevelsInputs
      [] section = "visual" -> VisualInputs

ValidationErrors(section, raw) ==
    CASE section = "mechanics" -> MechanicsErrors(raw)
      [] section = "levels" -> LevelsErrors(raw)
      [] section = "visual" -> VisualErrors(raw)

Validated(section, raw) ==
    CASE section = "mechanics" -> MechanicsConfig(raw)
      [] section = "levels" -> LevelsConfig(raw)
      [] section = "visual" -> VisualConfig(raw)

(***************************************************************************)
(* app.py: POST /api/randomize.  The handler draws the seed from the       *)
(* module-level generator, validates the configuration, calls the          *)
(* section's randomizer and answers 422 on any exception.                  *)
(***************************************************************************)
NoRequest == [section |-> "none"]
NoResponse == [status |-> 0]

Dispatch(section, config, v, seed) ==
    CASE section = "mechanics" -> randomize_mechanics(config, v, seed)
      [] section = "levels" -> randomize_levels(config, v, seed)
      [] section = "visual" -> randomize_visual(config, v, seed)

randomize(section, raw, v, seed) ==
    \E out \in (IF ValidationErrors(section, raw) # {}
                THEN {Raised("ValidationError", rng)}
                ELSE {Dispatch(section, Validated(section, raw), v, seed)}) :
        /\ req' = [section |-> section, config |-> raw, variation |-> v, seed |-> seed]
        /\ res' = IF out.ok
                  THEN [status |-> 200, detail |-> "", config |-> out.config]
                  ELSE [status |-> 422, detail |-> out.error, config |-> NoConfig]
        /\ rng' = out.rng

(***************************************************************************)
(* app.py: the files.  An image file is [size, px]: its pixel dimensions   *)
(* and an identifier of its pixel content.  A directory is a function from *)
(* file names to files; history files `<slot>_<timestamp>.png` are keyed   *)
(* <<slot, timestamp>> and run directories `build_<timestamp>` by their    *)
(* timestamp.  The clock counts ticks of 1/TicksPerSecond seconds and      *)
(* strftime('%Y%m%d_%H%M%S') keeps the whole seconds.                      *)
(***************************************************************************)
TicksPerSecond == 2

strftime(t) == t \div TicksPerSecond

\* name, size, and the f-strings f"{name}_image" and f"assets/{name}.png"
ASSET_SLOTS ==
    << [name |-> "background", size |-> <<390, 844>>,
        image |-> "background_image", copy |-> "assets/background.png"],
       [name |-> "card_back", size |-> <<60, 84>>,
        image |-> "card_back_image", copy |-> "assets/card_back.png"],
       [name |-> "felt", size |-> <<366, 560>>,
        image |-> "felt_image", copy |-> "assets/felt.png"] >>

ASSET_SLOT_NAMES == {ASSET_SLOTS[i].name : i \in 1..Len(ASSET_SLOTS)}

\* next((s for s in ASSET_SLOTS if s["name"] == name))["size"]
SlotSize(name) ==
    ASSET_SLOTS[CHOOSE i \in 1..Len(ASSET_SLOTS) : ASSET_SLOTS[i].name = name].size

\* path.exists()
Exists(dir, name) == name \in DOMAIN dir

\* writing a file creates it or replaces its content
Put(dir, name, file) ==
    [n \in DOMAIN dir \cup {name} |-> IF n = name THEN file ELSE dir[n]]

\* dict.get(key, default)
Get(dict, key, dflt) == IF key \in DOMAIN dict THEN dict[key] ELSE dflt

\* the pixel content after LANCZOS resampling
Resampled(px) == px + 100

\* if img.size != (w, h): img = img.resize((w, h), LANCZOS)
resize(img, size) ==
    IF img.size = size THEN img ELSE [size |-> size, px |-> Resampled(img.px)]

\* PILImage.new("RGB", size, (r, g, b))
Placeholder(size, rgb) == [size |-> size, px |-> -(1 + rgb[1] * 65536 + rgb[2] * 256 + rgb[3])]

\* json.dump / json.dumps and base64.b64encode
json_dump(data) == [json |-> data]
b64encode(file) == [b64 |-> file]

\* shutil.copy2(png_path, backup) when png_path exists
Backup(hist, store, name, ts) ==
    IF Exists(store, name) THEN Put(hist, <<name, ts>>, store[name]) ELSE hist

\* the canonical file that a write to slot `name` replaces
Superseded(store, name) == IF Exists(store, name) THEN {<<name, store[name]>>} ELSE {}

NoOp == [op |-> "none", status |-> 0, wrote |-> {}]

(***************************************************************************)
(* app.py: startup.  defaults/visual.json is a dict of colour fields or    *)
(* cannot be loaded.                                                       *)
(***************************************************************************)
Unreadable == [unreadable |-> TRUE]

DefaultsFiles ==
    {Unreadable,
     [background_color |-> <<10, 26, 40>>, card_back_color |-> <<52, 90, 158>>,
      table_felt_color |-> <<53, 119, 28>>],
     [background_color |-> <<63, 108, 121>>, card_back_color |-> Unparseable]}

\* try: visual = _load_json(...) except Exception: visual = {}
LoadVisual(dflt) == IF dflt = Unreadable THEN <<>> ELSE dflt

colour_map(visual, name) ==
    CASE name = "background" -> Get(visual, "background_color", <<26, 71, 42>>)
      [] name = "card_back" -> Get(visual, "card_back_color", <<26, 35, 126>>)
      [] name = "felt" -> Get(visual, "table_felt_color", <<21, 128, 61>>)

\* the slot gets a placeholder whatever the directory holds
PlaceholderAlways(store, name) == TRUE

\* if dest.exists(): continue
PlaceholderDue(store, name) == ~Exists(store, name)

\* the loop over ASSET_SLOTS from slot i on; int(hex_col[0:2], 16) raises on
\* a colour it cannot parse and ends the loop
RECURSIVE EnsureLoop(_, _, _)
EnsureLoop(store, i, visual) ==
    IF i > Len(ASSET_SLOTS) THEN [store |-> store, raised |-> FALSE]
    ELSE IF ~PlaceholderDue(store, ASSET_SLOTS[i].name) THEN EnsureLoop(store, i + 1, visual)
    ELSE IF ~Parses(colour_map(visual, ASSET_SLOTS[i].name))
    THEN [store |-> store, raised |-> TRUE]
    ELSE EnsureLoop(Put(store, ASSET_SLOTS[i].name,
                        Placeholder(ASSET_SLOTS[i].size,
                                    colour_map(visual, ASSET_SLOTS[i].name))),
                    i + 1, visual)

_ensure_placeholder_assets(store, dflt) == EnsureLoop(store, 1, LoadVisual(dflt))

Startup ==
    /\ ops < MaxOps
    /\ \E out \in {_ensure_placeholder_assets(assets, defaults)} :
          /\ assets' = out.store
          /\ last' = [op |-> "startup",
                      status |-> IF out.raised THEN 500 ELSE 200,
                      wrote |-> {n \in DOMAIN out.store : ~Exists(assets, n)}]
    /\ ops' = ops + 1
    /\ UNCHANGED <<history, runs, now, defaults, template, overwritten, script, rvars>>

(***************************************************************************)
(* app.py: POST /api/assets/approve.                                       *)
(***************************************************************************)
Undecodable == [undecodable |-> TRUE]

\* PILImage.open(BytesIO(img_bytes)) succeeds
Decodes(image) == "size" \in DOMAIN image

ApproveNames == ASSET_SLOT_NAMES \cup {"logo"}

ApproveImages ==
    {[size |-> <<390, 844>>, px |-> 1], [size |-> <<1024, 1024>>, px |-> 2], Undecodable}

\* the handler with the backup made before the image is decoded
asset_approve_decode_late(asset_name, image_b64) ==
    IF asset_name \notin ASSET_SLOT_NAMES
    THEN /\ last' = [op |-> "approve", status |-> 400, wrote |-> {},
                     asset_name |-> asset_name, image_b64 |-> image_b64]
         /\ UNCHANGED <<assets, history, overwritten>>
    ELSE IF ~Decodes(image_b64)
    THEN /\ history' = Backup(history, assets, asset_name, strftime(now))
         /\ last' = [op |-> "approve", status |-> 500, wrote |-> {},
                     asset_name |-> asset_name, image_b64 |-> image_b64]
         /\ UNCHANGED <<assets, overwritten>>
    ELSE /\ history' = Backup(history, assets, asset_name, strftime(now))
         /\ overwritten' = overwritten \cup Superseded(assets, asset_name)
         /\ assets' = Put(assets, asset_name, resize(image_b64, SlotSize(asset_name)))
         /\ last' = [op |-> "approve", status |-> 200, wrote |-> {asset_name},
                     asset_name |-> asset_name, image_b64 |-> image_b64]

asset_approve(asset_name, image_b64) ==
    IF asset_name \notin ASSET_SLOT_NAMES
    THEN /\ last' = [op |-> "approve", status |-> 400, wrote |-> {},
                     asset_name |-> asset_name, image_b64 |-> image_b64]
         /\ UNCHANGED <<assets, history, overwritten>>
    ELSE IF ~Decodes(image_b64)
    THEN /\ last' = [op |-> "approve", status |-> 500, wrote |-> {},
                     asset_name |-> asset_name, image_b64 |-> image_b64]
         /\ UNCHANGED <<assets, history, overwritten>>
    ELSE /\ history' = Backup(history, assets, asset_name, strftime(now))
         /\ overwritten' = overwritten \cup Superseded(assets, asset_name)
         /\ assets' = Put(assets, asset_name, resize(image_b64, SlotSize(asset_name)))
         /\ last' = [op |-> "approve", status |-> 200, wrote |-> {asset_name},
                     asset_name |-> asset_name, image_b64 |-> image_b64]

AssetApprove ==
    /\ ops < MaxOps
    /\ \E asset_name \in ApproveNames, image_b64 \in ApproveImages :
          asset_approve(asset_name, image_b64)
    /\ ops' = ops + 1
    /\ UNCHANGED <<runs, now, defaults, template, script, rvars>>

(***************************************************************************)
(* app.py: POST /api/assets/replace, with gemini.generate_asset.           *)
(***************************************************************************)
ReplaceNameLists ==
    {<<>>, <<"background">>, <<"card_back", "felt">>, <<"background", "background">>,
     <<"felt", "logo">>}

\* what the image model returns for one request; the image for the i-th name
\* has its own content
GeneratedImages == {[size |-> <<1024, 1024>>, px |-> 10], [size |-> <<390, 844>>, px |-> 20]}

Generated(raw, i) == [raw EXCEPT !.px = raw.px + i]

\* width, height = im.size of the current file, else the slot's size
TargetSize(store, name) == IF Exists(store, name) THEN store[name].size ELSE SlotSize(name)

\* the returned image, resized to width x height
generate_asset(raw, size) == resize(raw, size)

\* the loop over req.asset_names from name i on; the generation for name
\* fail_at raises
RECURSIVE ReplaceLoop(_, _, _, _, _, _)
ReplaceLoop(names, i, st, ts, raw, fail_at) ==
    IF i > Len(names) THEN [st EXCEPT !.status = 200]
    ELSE IF i = fail_at THEN [st EXCEPT !.status = 500]
    ELSE ReplaceLoop(names, i + 1,
            [assets |-> Put(st.assets, names[i],
                            generate_asset(Generated(raw, i), TargetSize(st.assets, names[i]))),
             history |-> Backup(st.history, st.assets, names[i], ts),
             overwritten |-> st.overwritten \cup Superseded(st.assets, names[i]),
             wrote |-> st.wrote \cup {names[i]},
             status |-> 0],
            ts, raw, fail_at)

replace_assets(asset_names, key, raw, fail_at) ==
    IF ~key
    THEN /\ last' = [op |-> "replace", status |-> 500, wrote |-> {},
                     asset_names |-> asset_names]
         /\ UNCHANGED <<assets, history, overwritten>>
    ELSE IF \E i \in 1..Len(asset_names) : asset_names[i] \notin ASSET_SLOT_NAMES
    THEN /\ last' = [op |-> "replace", status |-> 400, wrote |-> {},
                     asset_names |-> asset_names]
         /\ UNCHANGED <<assets, history, overwritten>>
    ELSE \E out \in {ReplaceLoop(asset_names, 1,
                                 [assets |-> assets, history |-> history,
                                  overwritten |-> overwritten, wrote |-> {}, status |-> 0],
                                 strftime(now), raw, fail_at)} :
            /\ assets' = out.assets
            /\ history' = out.history
            /\ overwritten' = out.overwritten
            /\ last' = [op |-> "replace", status |-> out.status, wrote |-> out.wrote,
                        asset_names |-> asset_names]

ReplaceAssets ==
    /\ ops < MaxOps
    /\ \E asset_names \in ReplaceNameLists, key \in BOOLEAN, raw \in GeneratedImages :
          \E fail_at \in 0..Len(asset_names) :
              replace_assets(asset_names, key, raw, fail_at)
    /\ ops' = ops + 1
    /\ UNCHANGED <<runs, now, defaults, template, script, rvars>>

(***************************************************************************)
(* scripts/generate_default_assets.py: a separate process.  It takes its   *)
(* timestamp once, then generates and saves one asset per iteration; the   *)
(* server's handlers run between its iterations.                           *)
(***************************************************************************)
ASSETS ==
    << [name |-> "background", size |-> <<390, 844>>],
       [name |-> "card_back", size |-> <<60, 84>>],
       [name |-> "felt", size |-> <<366, 560>>] >>

ScriptStart ==
    /\ ops < MaxOps
    /\ script.pc = 0
    /\ script' = [pc |-> 1, ts |-> strftime(now)]
    /\ last' = [op |-> "script_start", status |-> 0, wrote |-> {}]
    /\ ops' = ops + 1
    /\ UNCHANGED <<assets, history, runs, now, defaults, template, overwritten, rvars>>

\* one iteration: the model returns an image, returns none (SKIP) or the call raises
ScriptStep ==
    /\ ops < MaxOps
    /\ script.pc \in 1..Len(ASSETS)
    /\ \E outcome \in {"saved", "skipped", "raised"}, raw \in GeneratedImages :
          CASE outcome = "saved" ->
                  /\ history' = Backup(history, assets, ASSETS[script.pc].name, script.ts)
                  /\ assets' = Put(assets, ASSETS[script.pc].name,
                                   resize(Generated(raw, 5), ASSETS[script.pc].size))
                  /\ script' = [script EXCEPT !.pc = script.pc + 1]
                  /\ last' = [op |-> "script", status |-> 200,
                              wrote |-> {ASSETS[script.pc].name}]
            [] outcome = "skipped" ->
                  /\ script' = [script EXCEPT !.pc = script.pc + 1]
                  /\ last' = [op |-> "script", status |-> 0, wrote |-> {}]
                  /\ UNCHANGED <<assets, history>>
            [] outcome = "raised" ->
                  /\ script' = [script EXCEPT !.pc = Len(ASSETS) + 1]
                  /\ last' = [op |-> "script", status |-> 500, wrote |-> {}]
                  /\ UNCHANGED <<assets, history>>
    /\ ops' = ops + 1
    /\ UNCHANGED <<runs, now, defaults, template, overwritten, rvars>>

(***************************************************************************)
(* app.py: POST /api/generate.                                             *)
(***************************************************************************)
\* a base64 image a client sends in an image field of the visual section
ClientImage == b64encode([size |-> <<60, 84>>, px |-> 50])

\* valid triples, one with card_back_image set by the client; triples with
\* an invalid field in one section and in two sections
BuildInputs ==
    {[mechanics |-> MechanicsDefaults, levels |-> MinimalLevels, visual |-> VisualDefaults],
     [mechanics |-> [input_type |-> "both"], levels |-> LevelsSample(1, 0, 1),
      visual |-> [VisualSample(1, 0) EXCEPT !.card_back_image = ClientImage]],
     [mechanics |-> [input_type |-> "swipe"], levels |-> MinimalLevels,
      visual |-> VisualDefaults],
     [mechanics |-> [input_type |-> "swipe", animation_type |-> "spin"],
      levels |-> MinimalLevels, visual |-> [ui_theme |-> "neon"]]}

\* req.seed: absent, an empty dict, a seed record
Seeds == {None, <<>>, [values |-> [mechanics |-> MechanicsDefaults], seed |-> 7]}

\* if req.seed:
Truthy(seed) == seed # None /\ DOMAIN seed # {}

\* one of the three sections fails validation
BuildInvalid(b) ==
    \/ MechanicsErrors(b.mechanics) # {}
    \/ LevelsErrors(b.levels) # {}
    \/ VisualErrors(b.visual) # {}

\* the failing fields of each section as <<section, level, field>>, level 0
\* for a field of the section itself
MechanicsFieldErrors(raw) == {<<"mechanics", 0, f>> : f \in MechanicsErrors(raw)}
LevelsFieldErrors(raw) == {<<"levels", e[1], e[2]>> : e \in LevelsErrors(raw)}
VisualFieldErrors(raw) == {<<"visual", 0, f>> : f \in VisualErrors(raw)}

\* the fields named by the exception the try block catches: the three
\* constructors run in turn and the first that fails raises, naming the
\* failing fields of its own section
ReportedErrors(b) ==
    IF MechanicsErrors(b.mechanics) # {} THEN MechanicsFieldErrors(b.mechanics)
    ELSE IF LevelsErrors(b.levels) # {} THEN LevelsFieldErrors(b.levels)
    ELSE VisualFieldErrors(b.visual)

\* folder.mkdir(parents=True, exist_ok=True): the directory as it is, or empty
RunFolder(rs, run_id) == IF Exists(rs, run_id) THEN rs[run_id] ELSE <<>>

SaveSeed(folder, seed) ==
    IF Truthy(seed) THEN Put(folder, "seed.json", json_dump(seed)) ELSE folder

\* no file is written before the template test
SaveNothing(folder, b, seed) == folder

\* a configuration file that is already in the folder is left as it is
SaveConfigsKeep(folder, b, seed) ==
    SaveSeed([n \in DOMAIN folder \cup {"mechanics.json", "levels.json", "visual.json"} |->
                 IF n \in DOMAIN folder THEN folder[n]
                 ELSE IF n = "mechanics.json" THEN json_dump(MechanicsConfig(b.mechanics))
                 ELSE IF n = "levels.json" THEN json_dump(LevelsConfig(b.levels))
                 ELSE json_dump(VisualConfig(b.visual))],
             seed)

\* levels.json is not written
SaveConfigsNoLevels(folder, b, seed) ==
    SaveSeed(Put(Put(folder, "mechanics.json", json_dump(MechanicsConfig(b.mechanics))),
                 "visual.json", json_dump(VisualConfig(b.visual))),
             seed)

SaveConfigs(folder, b, seed) ==
    SaveSeed(Put(Put(Put(folder, "mechanics.json", json_dump(MechanicsConfig(b.mechanics))),
                     "levels.json", json_dump(LevelsConfig(b.levels))),
                 "visual.json", json_dump(VisualConfig(b.visual))),
             seed)

\* the asset directory after shutil.move(png_path, run_assets / ...)
move(store, name) == [n \in DOMAIN store \ {name} |-> store[n]]

\* the asset directory after shutil.copy2(png_path, run_assets / ...)
copy2(store, name) == store

\* the loop over ASSET_SLOTS from slot i on: embed the file in visual_dict
\* and copy it into the run's assets folder
RECURSIVE EmbedAssets(_, _, _, _)
EmbedAssets(i, visual_dict, folder, store) ==
    IF i > Len(ASSET_SLOTS) THEN [visual |-> visual_dict, folder |-> folder, store |-> store]
    ELSE IF Exists(store, ASSET_SLOTS[i].name)
    THEN EmbedAssets(i + 1,
                     [visual_dict EXCEPT ![ASSET_SLOTS[i].image] =
                                              b64encode(store[ASSET_SLOTS[i].name])],
                     Put(folder, ASSET_SLOTS[i].copy, store[ASSET_SLOTS[i].name]),
                     copy2(store, ASSET_SLOTS[i].name))
    ELSE EmbedAssets(i + 1, visual_dict, folder, store)

\* the document with the identifier of the run written into it
OutputHtmlStamped(b, visual_dict) ==
    [html |-> json_dump([mechanics |-> MechanicsConfig(b.mechanics),
                         levels |-> LevelsConfig(b.levels),
                         visual |-> visual_dict]),
     run_id |-> strftime(now)]

\* template_html.replace("__GAME_CONFIG__", json.dumps(full_config))
OutputHtml(b, visual_dict) ==
    [html |-> json_dump([mechanics |-> MechanicsConfig(b.mechanics),
                         levels |-> LevelsConfig(b.levels),
                         visual |-> visual_dict])]

\* the handler from the run folder on, for inputs that passed validation
write_run(b, seed) ==
    \E run_id \in {strftime(now)} :
    \E folder \in {SaveConfigs(RunFolder(runs, run_id), b, seed)} :
        IF ~template
        THEN /\ runs' = Put(runs, run_id, folder)
             /\ last' = [op |-> "generate", status |-> 500, wrote |-> {}, input |-> b,
                         seed |-> seed, run_id |-> run_id]
             /\ UNCHANGED assets
        ELSE \E e \in {EmbedAssets(1, VisualConfig(b.visual), folder, assets)} :
                /\ runs' = Put(runs, run_id,
                               Put(e.folder, "index.html", OutputHtml(b, e.visual)))
                /\ assets' = e.store
                /\ last' = [op |-> "generate", status |-> 200, wrote |-> {}, input |-> b,
                            seed |-> seed, run_id |-> run_id]

\* the handler with the run folder made before the validation
generate_mkdir_first(b, seed) ==
    IF BuildInvalid(b)
    THEN /\ runs' = Put(runs, strftime(now), RunFolder(runs, strftime(now)))
         /\ last' = [op |-> "generate", status |-> 422, wrote |-> {}, input |-> b,
                     errors |-> ReportedErrors(b)]
         /\ UNCHANGED assets
    ELSE write_run(b, seed)

generate(b, seed) ==
    IF BuildInvalid(b)
    THEN /\ last' = [op |-> "generate", status |-> 422, wrote |-> {}, input |-> b,
                     errors |-> ReportedErrors(b)]
         /\ UNCHANGED <<assets, runs>>
    ELSE write_run(b, seed)

Generate ==
    /\ ops < MaxOps
    /\ \E b \in BuildInputs, seed \in Seeds : generate(b, seed)
    /\ ops' = ops + 1
    /\ UNCHANGED <<history, now, defaults, template, overwritten, script, rvars>>

(***************************************************************************)
(* app.py: GET /api/runs and GET /api/runs/{run_id}.  Both read the runs   *)
(* directory at the time of the call.  The created_at of a list entry (the *)
(* directory's modification time) is left out of the entries.              *)
(***************************************************************************)
\* json.load of a file written by json.dump
json_load(file) == file.json

\* sorted(ids): ascending
RECURSIVE SortedAsc(_)
SortedAsc(ids) ==
    IF ids = {} THEN <<>>
    ELSE Append(SortedAsc(ids \ {CHOOSE m \in ids : \A x \in ids : x <= m}),
                CHOOSE m \in ids : \A x \in ids : x <= m)

\* sorted(RUNS_DIR.iterdir(), reverse=True): directory names `build_<timestamp>`
\* have one width, so their order is the order of the timestamps
RECURSIVE SortedDesc(_)
SortedDesc(ids) ==
    IF ids = {} THEN <<>>
    ELSE <<CHOOSE m \in ids : \A x \in ids : x <= m>>
         \o SortedDesc(ids \ {CHOOSE m \in ids : \A x \in ids : x <= m})

RunEntry(rs, run_id) ==
    [run_id |-> run_id,
     has_seed |-> Exists(rs[run_id], "seed.json"),
     has_build |-> Exists(rs[run_id], "index.html")]

list_runs(rs) ==
    [i \in 1..Len(SortedDesc(DOMAIN rs)) |-> RunEntry(rs, SortedDesc(DOMAIN rs)[i])]

ListRuns ==
    /\ ops < MaxOps
    /\ last' = [op |-> "list", status |-> 200, wrote |-> {}, body |-> list_runs(runs)]
    /\ ops' = ops + 1
    /\ UNCHANGED <<assets, history, runs, now, defaults, template, overwritten, script, rvars>>

\* ("mechanics", "levels", "visual") and "seed", with f"{section}.json"
RunSections == <<"mechanics", "levels", "visual", "seed">>

SectionFile(section) ==
    CASE section = "mechanics" -> "mechanics.json"
      [] section = "levels" -> "levels.json"
      [] section = "visual" -> "visual.json"
      [] section = "seed" -> "seed.json"

\* result: the sections whose file exists in the folder
LoadSections(folder) ==
    [section \in {RunSections[i] : i \in {j \in 1..Len(RunSections) :
                                           Exists(folder, SectionFile(RunSections[j]))}}
        |-> json_load(folder[SectionFile(section)])]

\* answers 404 also for a directory that holds none of the files
get_run_nonempty(rs, run_id) ==
    IF ~Exists(rs, run_id) \/ DOMAIN LoadSections(rs[run_id]) = {}
    THEN [status |-> 404, body |-> <<>>]
    ELSE [status |-> 200, body |-> LoadSections(rs[run_id])]

get_run(rs, run_id) ==
    IF ~Exists(rs, run_id)
    THEN [status |-> 404, body |-> <<>>]
    ELSE [status |-> 200, body |-> LoadSections(rs[run_id])]

\* directories of runs/ that no build of this behaviour made: an empty one
\* and the run of an earlier build
OldRun == -1
OldBuild == -2

\* the identifiers a client asks for: the old directories, every second of
\* the clock and one second later
RunIds == {OldRun, OldBuild} \cup 0..(strftime(MaxTime) + 1)

GetRun ==
    /\ ops < MaxOps
    /\ \E run_id \in RunIds :
          \E out \in {get_run(runs, run_id)} :
              last' = [op |-> "get", status |-> out.status, wrote |-> {}, run_id |-> run_id,
                       body |-> out.body]
    /\ ops' = ops + 1
    /\ UNCHANGED <<assets, history, runs, now, defaults, template, overwritten, script, rvars>>

(***************************************************************************)
(* The file-system specification.                                          *)
(***************************************************************************)
\* static/assets/project before the first startup: empty, or holding an
\* image file that was put there by hand
InitialStores == {<<>>, Put(<<>>, "background", [size |-> <<800, 600>>, px |-> 7])}

\* the run directory an earlier build of the default sections, without a seed
\* record, left while the Asset Store was empty
OldBuildFolder ==
    Put(SaveConfigs(<<>>, [mechanics |-> MechanicsDefaults, levels |-> MinimalLevels,
                           visual |-> VisualDefaults], None),
        "index.html",
        OutputHtml([mechanics |-> MechanicsDefaults, levels |-> MinimalLevels,
                    visual |-> VisualDefaults],
                   VisualConfig(VisualDefaults)))

\* runs/ before the first build: empty, or holding an empty directory, or an
\* empty directory and the run of an earlier build
InitialRuns ==
    {<<>>, Put(<<>>, OldRun, <<>>), Put(Put(<<>>, OldRun, <<>>), OldBuild, OldBuildFolder)}

\* the two directories before the first startup: at most one of them holds
\* something
InitialDisks ==
    {[assets |-> a, runs |-> r] : a \in InitialStores, r \in InitialRuns}
    \ {[assets |-> a, runs |-> r] : a \in InitialStores \ {<<>>}, r \in InitialRuns \ {<<>>}}

Init ==
    /\ cur = NoRequest
    /\ req = NoRequest
    /\ res = NoResponse
    /\ rng = 0
    /\ first = [set |-> FALSE]
    /\ now = 0
    /\ \E disk \in InitialDisks : assets = disk.assets /\ runs = disk.runs
    /\ history = <<>>
    /\ defaults \in DefaultsFiles
    /\ template \in BOOLEAN
    /\ last = NoOp
    /\ overwritten = {}
    /\ script = [pc |-> 0, ts |-> 0]
    /\ ops = 0

(***************************************************************************)
(* app.py: GET /runs/{run_id}/play serves the run's index.html.            *)
(***************************************************************************)
play_run(rs, run_id) ==
    IF ~Exists(RunFolder(rs, run_id), "index.html")
    THEN [status |-> 404, body |-> <<>>]
    ELSE [status |-> 200, body |-> rs[run_id]["index.html"]]

PlayRun ==
    /\ ops < MaxOps
    /\ \E run_id \in RunIds :
          \E out \in {play_run(runs, run_id)} :
              last' = [op |-> "play", status |-> out.status, wrote |-> {}, run_id |-> run_id,
                       body |-> out.body]
    /\ ops' = ops + 1
    /\ UNCHANGED <<assets, history, runs, now, defaults, template, overwritten, script, rvars>>

Tick ==
    /\ now < MaxTime
    /\ now' = now + 1
    /\ UNCHANGED <<assets, history, runs, defaults, template, last, overwritten, script, ops,
                   rvars>>

Next ==
    \/ Startup
    \/ AssetApprove
    \/ ReplaceAssets
    \/ Generate
    \/ ListRuns
    \/ GetRun
    \/ ScriptStart
    \/ ScriptStep
    \/ Tick

Spec == Init /\ [][Next]_vars

(***************************************************************************)
(* The randomizer specifications.                                          *)
(***************************************************************************)
\* the file system while only /api/randomize is exercised
InitFiles ==
    /\ assets = <<>>
    /\ history = <<>>
    /\ runs = <<>>
    /\ now = 0
    /\ defaults = Unreadable
    /\ template = TRUE
    /\ last = NoOp
    /\ overwritten = {}
    /\ script = [pc |-> 0, ts |-> 0]
    /\ ops = 0

RandomizeInputs ==
    {[section |-> section, config |-> raw] : section \in {"mechanics"}, raw \in MechanicsInputs}
    \cup {[section |-> section, config |-> raw] : section \in {"levels"}, raw \in LevelsInputs}
    \cup {[section |-> section, config |-> raw] : section \in {"visual"}, raw \in VisualInputs}

InitRand ==
    /\ cur \in RandomizeInputs
    /\ req = NoRequest
    /\ res = NoResponse
    /\ rng = 0
    /\ first = [set |-> FALSE]
    /\ InitFiles

\* one call of the handler; the call may be kept as the earlier call that later
\* calls are compared with, and first.other records that a call with other
\* arguments has happened since
Randomize ==
    \E v \in Variations, seed \in 0..MaxSeed :
        /\ randomize(cur.section, cur.config, v, seed)
        /\ first' \in (IF first.set
                       THEN {[first EXCEPT !.other = first.other \/ req' # first.req]}
                       ELSE {first, [set |-> TRUE, req |-> req', res |-> res', other |-> FALSE]})
        /\ UNCHANGED cur
        /\ UNCHANGED fvars

NextRand == Randomize

SpecRand == InitRand /\ [][NextRand]_vars

(***************************************************************************)
(* Claims about the randomization engine (SpecRand).                       *)
(***************************************************************************)
Answered == req.section # "none"
ValidRequest == Answered /\ ValidationErrors(req.section, req.config) = {}
InputConfig == Validated(req.section, req.config)

\* C1: two calls of randomize with the same (configuration, variation, seed)
\* return equal outputs, whatever calls happen before or between them.
C1_Determinism == (first.set /\ req = first.req) => res = first.res

\* C1 witness: a call repeats an earlier one after a call with other
\* arguments, and the repeated call returned a changed configuration.
C1_Witness ==
    /\ first.set /\ first.other /\ req = first.req
    /\ res.status = 200 /\ res.config # InputConfig

\* C2: for every valid configuration and every variation in [0,1], randomize
\* returns a configuration of the section that passes validation; it never
\* ends in an error.
C2_ValidityPreserved ==
    (ValidRequest /\ req.variation \in 0..VarDen)
        => (res.status = 200 /\ ValidationErrors(req.section, res.config) = {})

InRange(x, low, high) == low <= x /\ x <= high

LevelInRange(level) ==
    /\ InRange(level.enter_duration_ms, 400, 2000)
    /\ InRange(level.layout.grid.cell_width, 56, 110)
    /\ InRange(level.layout.grid.cell_height, 76, 150)
    /\ InRange(level.timings.win_screen_duration_ms, 1000, 5000)
    /\ InRange(level.timings.fail_screen_duration_ms, 1000, 5000)
    /\ InRange(level.timings.level_transition_duration_ms, 500, 3000)

LevelsReturned == Answered /\ req.section = "levels" /\ res.status = 200

\* C3: every level returned by randomize_levels has enter_duration_ms in
\* [400,2000], cell_width in [56,110], cell_height in [76,150], the win and
\* fail screen durations in [1000,5000] and the transition duration in
\* [500,3000], for every input value, variation and seed.
C3_RangeRespect ==
    LevelsReturned => \A i \in 1..Len(res.config.levels) : LevelInRange(res.config.levels[i])

\* C3 witness: a level whose input lay above its range and one whose input lay
\* below it were both returned, clamped onto the bounds.
C3_Witness ==
    /\ LevelsReturned /\ req.variation > 0
    /\ \E i \in 1..Len(res.config.levels) :
          /\ InputConfig.levels[i].layout.grid.cell_width > 110
          /\ res.config.levels[i].layout.grid.cell_width = 110
    /\ \E i \in 1..Len(res.config.levels) :
          /\ InputConfig.levels[i].enter_duration_ms < 400
          /\ res.config.levels[i].enter_duration_ms = 400

\* C4: randomize with variation = 0.0 returns, for any seed and any valid
\* input, a configuration equal to the input in every field.
C4_NoOpAtZero ==
    (ValidRequest /\ req.variation = 0) => (res.status = 200 /\ res.config = InputConfig)

\* a returned level with the fields randomize_levels may vary set back to the input's
Unvaried(out, in) ==
    [out EXCEPT !.enter_animation = in.enter_animation,
                !.enter_duration_ms = in.enter_duration_ms,
                !.layout.grid.cell_width = in.layout.grid.cell_width,
                !.layout.grid.cell_height = in.layout.grid.cell_height,
                !.timings = in.timings]

\* C5: randomize_levels returns the same number of levels in the same order
\* and leaves unchanged every field of every level and of the section other
\* than grid cell size, enter animation and duration and the three timing
\* durations.
C5_LayoutPreserved ==
    LevelsReturned =>
        /\ Len(res.config.levels) = Len(InputConfig.levels)
        /\ \A i \in 1..Len(res.config.levels) :
              Unvaried(res.config.levels[i], InputConfig.levels[i]) = InputConfig.levels[i]
        /\ [res.config EXCEPT !.levels = InputConfig.levels] = InputConfig

\* C5 witness: two levels with cards and a draw pile came back with some
\* cosmetic field changed.
C5_Witness ==
    /\ LevelsReturned
    /\ Len(res.config.levels) >= 2
    /\ res.config # InputConfig
    /\ \A i \in 1..Len(res.config.levels) :
          /\ InputConfig.levels[i].layout.draw_pile # <<>>
          /\ InputConfig.levels[i].layout.tableau # <<>>

(***************************************************************************)
(* Claims about the asset store and the run directories (Spec).            *)
(***************************************************************************)
StartupStep == last'.op = "startup" /\ ops' = ops + 1
GenerateStep == last'.op = "generate" /\ ops' = ops + 1

IsPlaceholder(file) == file.px < 0

\* C6: placeholder synthesis never overwrites an existing slot file: every
\* file that exists when ensurePlaceholders is called, a placeholder of an
\* earlier call or a written asset, is still there with the same content
\* afterwards.
C6_NoOverwrite ==
    [][StartupStep => \A n \in DOMAIN assets : Exists(assets', n) /\ assets'[n] = assets[n]]_vars

\* C6 witness: ensurePlaceholders has run over a store that already held a
\* placeholder of an earlier call and an image that is no placeholder.
C6_Witness ==
    /\ last.op = "startup" /\ last.wrote = {}
    /\ \E n \in DOMAIN assets : IsPlaceholder(assets[n])
    /\ \E n \in DOMAIN assets : ~IsPlaceholder(assets[n])

\* C7: after ensurePlaceholders, approve or replace, every canonical slot
\* file the operation wrote has exactly the slot's declared dimensions,
\* whatever the dimensions of the incoming image and of the file before.
C7_CanonicalSize ==
    last.op \in {"startup", "approve", "replace"}
        => \A n \in last.wrote : assets[n].size = SlotSize(n)

\* C8: every version of a canonical file that approve or replace has
\* overwritten is still present in the history directory.
C8_BackupsKept ==
    \A v \in overwritten : \E k \in DOMAIN history : k[1] = v[1] /\ history[k] = v[2]

\* a run directory that a build has fully written
FullyWritten(folder) == Exists(folder, "index.html")

\* C9: once a build has fully written a run directory, no later operation
\* changes the content of any file that exists in it.
C9_RunImmutable ==
    [][\A id \in DOMAIN runs :
          FullyWritten(runs[id])
              => \A f \in DOMAIN runs[id] : Exists(runs'[id], f) /\ runs'[id][f] = runs[id][f]]_vars

\* C10: a build, successful or failed, leaves the asset store unchanged: no
\* canonical slot file and no history backup is created, modified or
\* removed.
C10_BuildLeavesStore ==
    [][GenerateStep => (assets' = assets /\ history' = history)]_vars

\* C10 witness: a successful build has copied a slot file into its run while
\* the store held canonical files and a backup.
C10_Witness ==
    /\ last.op = "generate" /\ last.status = 200
    /\ DOMAIN assets # {} /\ DOMAIN history # {}
    /\ \E id \in DOMAIN runs :
          /\ FullyWritten(runs[id])
          /\ \E i \in 1..Len(ASSET_SLOTS) : Exists(runs[id], ASSET_SLOTS[i].copy)

(***************************************************************************)
(* Claims about the run builder and the run registry (Spec).               *)
(***************************************************************************)
Built == last.op = "generate" /\ last.status = 200

\* the visual section of the document embedded in a run's index.html
EmbeddedVisual(folder) == json_load(folder["index.html"].html).visual

SameConfigs(f, g) ==
    /\ f["mechanics.json"] = g["mechanics.json"]
    /\ f["levels.json"] = g["levels.json"]
    /\ f["visual.json"] = g["visual.json"]

\* C11: two successful builds given identical (mechanics, levels, visual)
\* produce index.html files with identical content, whatever operations
\* happen between them.
C11_Reproducible ==
    \A i \in DOMAIN runs : \A j \in DOMAIN runs :
        (FullyWritten(runs[i]) /\ FullyWritten(runs[j]) /\ SameConfigs(runs[i], runs[j]))
            => runs[i]["index.html"] = runs[j]["index.html"]

\* the copies of the slot files a build put into its run: the canonical files
\* the Asset Store held when the run was built
SameAssetCopies(f, g) ==
    \A i \in 1..Len(ASSET_SLOTS) :
        /\ Exists(f, ASSET_SLOTS[i].copy) <=> Exists(g, ASSET_SLOTS[i].copy)
        /\ Exists(f, ASSET_SLOTS[i].copy) => f[ASSET_SLOTS[i].copy] = g[ASSET_SLOTS[i].copy]

\* C11 (amended): two successful builds given identical (mechanics, levels,
\* visual) produce index.html files with identical content when the Asset
\* Store held the same canonical files at both builds.
C11_ReproducibleSameStore ==
    \A i \in DOMAIN runs : \A j \in DOMAIN runs :
        (/\ FullyWritten(runs[i]) /\ FullyWritten(runs[j])
         /\ SameConfigs(runs[i], runs[j])
         /\ SameAssetCopies(runs[i], runs[j]))
            => runs[i]["index.html"] = runs[j]["index.html"]

\* C11 witness: two runs built from the same input in different seconds, both
\* with the same slot file embedded.
C11_Witness ==
    \E i \in DOMAIN runs : \E j \in DOMAIN runs :
        /\ i # j
        /\ FullyWritten(runs[i]) /\ FullyWritten(runs[j])
        /\ SameConfigs(runs[i], runs[j])
        /\ SameAssetCopies(runs[i], runs[j])
        /\ \E k \in 1..Len(ASSET_SLOTS) : Exists(runs[i], ASSET_SLOTS[k].copy)

\* C12: after a build, the visual section embedded in index.html has a
\* populated <slot>_image field exactly for the slots whose canonical file
\* exists, and a populated field holds the encoding of that file.
C12_EmbeddedImages ==
    Built =>
        \A i \in 1..Len(ASSET_SLOTS) :
            /\ (EmbeddedVisual(runs[last.run_id])[ASSET_SLOTS[i].image] # None)
                  <=> Exists(assets, ASSET_SLOTS[i].name)
            /\ Exists(assets, ASSET_SLOTS[i].name)
                  => EmbeddedVisual(runs[last.run_id])[ASSET_SLOTS[i].image]
                        = b64encode(assets[ASSET_SLOTS[i].name])

\* C13: the visual.json of a run directory holds none of the derived image
\* fields background_image, card_back_image, felt_image.
C13_PersistedVisualBare ==
    \A id \in DOMAIN runs :
        Exists(runs[id], "visual.json")
            => \A i \in 1..Len(ASSET_SLOTS) :
                  json_load(runs[id]["visual.json"])[ASSET_SLOTS[i].image] = None

\* C14: after a build returns, its run directory holds seed.json if and only
\* if a seed record was supplied to that build, an empty record included.
C14_SeedIffSupplied ==
    Built => (Exists(runs[last.run_id], "seed.json") <=> last.seed # None)

Listed == last.op = "list"

\* C15: list() returns exactly one entry per run directory on disk, ordered
\* by identifier strictly descending, with has_seed true exactly when
\* seed.json exists in the directory and has_build exactly when index.html
\* does.
C15_ListExact ==
    Listed =>
        /\ Len(last.body) = Cardinality(DOMAIN runs)
        /\ {last.body[i].run_id : i \in 1..Len(last.body)} = DOMAIN runs
        /\ \A i \in 1..Len(last.body) : \A j \in 1..Len(last.body) :
              i < j => last.body[i].run_id > last.body[j].run_id
        /\ \A i \in 1..Len(last.body) :
              /\ last.body[i].has_seed <=> Exists(runs[last.body[i].run_id], "seed.json")
              /\ last.body[i].has_build <=> Exists(runs[last.body[i].run_id], "index.html")

\* C15 witness: a list of three directories, one built with a seed, one built
\* without and one without a build.
C15_Witness ==
    /\ Listed /\ Len(last.body) = 3
    /\ \E i \in 1..3 : last.body[i].has_seed /\ last.body[i].has_build
    /\ \E i \in 1..3 : ~last.body[i].has_seed /\ last.body[i].has_build
    /\ \E i \in 1..3 : ~last.body[i].has_build

Got == last.op = "get"

\* C16: get(id) fails with 404 exactly when no directory of that identifier
\* exists; otherwise it returns exactly those of mechanics, levels, visual,
\* seed whose file exists in the directory, each as the content of its file,
\* and an empty result for a directory that holds none of them.
C16_GetExact ==
    Got =>
        /\ last.status = 404 <=> last.run_id \notin DOMAIN runs
        /\ last.run_id \in DOMAIN runs =>
              /\ last.status = 200
              /\ \A s \in {"mechanics", "levels", "visual", "seed"} :
                    /\ s \in DOMAIN last.body <=> Exists(runs[last.run_id], SectionFile(s))
                    /\ s \in DOMAIN last.body
                          => last.body[s] = runs[last.run_id][SectionFile(s)].json
              /\ DOMAIN last.body \subseteq {"mechanics", "levels", "visual", "seed"}

\* C16 witness: get of a directory without any of the files returned an empty
\* result while a built run stood next to it.
C16_Witness ==
    /\ Got /\ last.status = 200 /\ DOMAIN last.body = {}
    /\ last.run_id \in DOMAIN runs
    /\ \E id \in DOMAIN runs : FullyWritten(runs[id])

\* C16: get of a run built without a seed returned its three sections and no
\* seed.
C16_WitnessPartial ==
    /\ Got /\ last.status = 200
    /\ DOMAIN last.body = {"mechanics", "levels", "visual"}

\* a step of an asset write whose request names an unknown slot (approve, or
\* replace with an unknown name anywhere in its list) or carries an image
\* that does not decode (approve)
RejectedWrite ==
    /\ ops' = ops + 1
    /\ \/ /\ last'.op = "approve"
          /\ \/ last'.asset_name \notin ASSET_SLOT_NAMES
             \/ last'.image_b64 = Undecodable
       \/ /\ last'.op = "replace"
          /\ \E i \in 1..Len(last'.asset_names) :
                last'.asset_names[i] \notin ASSET_SLOT_NAMES

\* C17: an asset write that fails for an unknown slot name or an undecodable
\* image ends in an error and leaves every slot file and every history
\* backup unchanged.
C17_RejectedWriteLeavesStore ==
    [][RejectedWrite =>
          /\ last'.status \in {400, 500}
          /\ assets' = assets
          /\ history' = history]_vars

\* C17 witness: an approve with an undecodable image ended in an error while
\* the store held slot files and backups.
C17_Witness ==
    /\ last.op = "approve" /\ last.status = 500
    /\ last.asset_name \in DOMAIN assets
    /\ DOMAIN history # {}

\* C17: a replace naming a known slot and then an unknown one was refused
\* while the store held the known slot's file.
C17_WitnessReplace ==
    /\ last.op = "replace" /\ last.status = 400
    /\ \E i \in 1..Len(last.asset_names) : last.asset_names[i] \in DOMAIN assets

C19_ValidationGates ==
    [][(GenerateStep /\ BuildInvalid(last'.input)) =>
          /\ last'.status = 422
          /\ runs' = runs
          /\ assets' = assets
          /\ history' = history]_vars

\* C19 witness: a build was refused by the validation while a built run and
\* slot files were on disk.
C19_Witness ==
    /\ last.op = "generate" /\ last.status = 422
    /\ \E id \in DOMAIN runs : FullyWritten(runs[id])
    /\ DOMAIN assets # {}

\* C20: the validation error of a build names every offending field of the
\* input, those of every failing section included.
C20_AllFieldsReported ==
    (last.op = "generate" /\ last.status = 422) =>
        last.errors = MechanicsFieldErrors(last.input.mechanics)
                        \cup LevelsFieldErrors(last.input.levels)
                        \cup VisualFieldErrors(last.input.visual)

(***************************************************************************)
(* Further claims about the randomization engine (SpecRand).               *)
(***************************************************************************)
\* C21: randomize called with a variation below 0 or above 1 ends in a
\* validation error and returns no randomized configuration.
C21_VariationRange ==
    (Answered /\ req.variation \notin 0..VarDen)
        => (res.status = 422 /\ res.config = NoConfig)

\* the distance between a returned value and its input
Dist(a, b) == IF a >= b THEN a - b ELSE b - a

\* an input value inside [low, high] came back within
\* floor((high - low) * variation) of it
WithinDelta(out, in, low, high) ==
    InRange(in, low, high) => Dist(out, in) <= Trunc((high - low) * req.variation, VarDen)

LevelWithinDelta(out, in) ==
    /\ WithinDelta(out.enter_duration_ms, in.enter_duration_ms, 400, 2000)
    /\ WithinDelta(out.layout.grid.cell_width, in.layout.grid.cell_width, 56, 110)
    /\ WithinDelta(out.layout.grid.cell_height, in.layout.grid.cell_height, 76, 150)
    /\ WithinDelta(out.timings.win_screen_duration_ms, in.timings.win_screen_duration_ms,
                   1000, 5000)
    /\ WithinDelta(out.timings.fail_screen_duration_ms, in.timings.fail_screen_duration_ms,
                   1000, 5000)
    /\ WithinDelta(out.timings.level_transition_duration_ms,
                   in.timings.level_transition_duration_ms, 500, 3000)

\* C25: every bounded integer field whose input lies inside its bounds
\* [min,max] comes back at most floor((max - min) x variation) away from the
\* input, for every seed.
C25_DeltaBound ==
    LevelsReturned =>
        \A i \in 1..Len(res.config.levels) :
            LevelWithinDelta(res.config.levels[i], InputConfig.levels[i])

\* C25 witness: a level with cell_width 76 came back with another width at
\* variation 0.3, inside [60,92].
C25_Witness ==
    /\ LevelsReturned /\ req.variation = 3
    /\ \E i \in 1..Len(res.config.levels) :
          /\ InputConfig.levels[i].layout.grid.cell_width = 76
          /\ res.config.levels[i].layout.grid.cell_width # 76
          /\ InRange(res.config.levels[i].layout.grid.cell_width, 60, 92)

\* the enumerated-choice fields of a section, for levels those of a level
EnumFields(section) ==
    CASE section = "mechanics" -> {"input_type", "card_move_speed", "animation_type"}
      [] section = "visual" -> {"card_back_pattern", "ui_theme"}
      [] section = "levels" -> {"enter_animation"}

\* every enumerated-choice field of the returned configuration differs from
\* the input's and is an option of its domain
EveryEnumChanged ==
    IF req.section = "levels"
    THEN \A i \in 1..Len(res.config.levels) :
            /\ res.config.levels[i].enter_animation # InputConfig.levels[i].enter_animation
            /\ res.config.levels[i].enter_animation \in Range(EnterAnimation)
    ELSE /\ \A f \in EnumFields(req.section) : res.config[f] # InputConfig[f]
         /\ ValidationErrors(req.section, res.config) = {}

\* C26: an enumerated-choice field is replaced, by another option of its
\* domain, with probability = variation: at variation 1.0 every such field
\* of the returned configuration differs from the input.
C26_EnumsChangeAtOne ==
    (ValidRequest /\ req.variation = VarDen) => (res.status = 200 /\ EveryEnumChanged)

VisualRequest == ValidRequest /\ req.section = "visual"

\* C27: when a colour field of a visual configuration cannot be parsed,
\* randomize_visual returns that field's value unchanged and completes: the
\* call never fails because of it.
C27_UnparseableKept ==
    VisualRequest =>
        /\ res.status = 200
        /\ \A i \in 1..Len(color_fields) :
              ~Parses(InputConfig[color_fields[i]])
                  => res.config[color_fields[i]] = InputConfig[color_fields[i]]

\* C27 witness: a configuration with colours that parse and colours that do
\* not came back with a parseable colour changed and the others as sent.
C27_Witness ==
    /\ VisualRequest /\ res.status = 200 /\ req.variation > 0
    /\ \E i \in 1..Len(color_fields) : ~Parses(InputConfig[color_fields[i]])
    /\ \E i \in 1..Len(color_fields) :
          /\ Parses(InputConfig[color_fields[i]])
          /\ res.config[color_fields[i]] # InputConfig[color_fields[i]]

(***************************************************************************)
(* app.py: the handlers that ask the content-generation model for a        *)
(* structured result: POST /api/describe/gameplay and POST                 *)
(* /api/visual/layout (the version with categories).  What the model sends *)
(* back is an input of the handler: no tool block, a block that passes the *)
(* schema, or one that does not.                                           *)
(***************************************************************************)
Categories == {"game_design", "level_design", "graphics_ui", "animation", "legacy"}
ConfigCategories == {"game_design", "graphics_ui", "animation"}

\* TableauCard: code, col and row are required
TableauCardErrors(card) == {"code", "col", "row"} \ DOMAIN card

\* the fields of a raw layout that fail LevelLayout(...)
LayoutErrors(raw) ==
    ({"foundation_card", "tableau"} \ DOMAIN raw)
    \cup (IF "tableau" \in DOMAIN raw
          THEN UNION {{<<i, f>> : f \in TableauCardErrors(raw.tableau[i])} :
                        i \in 1..Len(raw.tableau)}
          ELSE {})

\* the generate_level_layout blocks the content model may send: none, a
\* layout with two columns, one without tableau and draw pile, one without
\* foundation_card, one with a card that has no code, one with a card that
\* has no col
LayoutBlocks ==
    {None,
     [foundation_card |-> "7H",
      tableau |-> <<[code |-> "6S", face_up |-> TRUE, col |-> 0, row |-> 0],
                    [code |-> "8D", face_up |-> FALSE, col |-> 1, row |-> 1]>>,
      draw_pile |-> <<"9C">>, solve_sequence |-> <<"6S", "8D">>],
     [foundation_card |-> "KD"],
     [tableau |-> <<[code |-> "6S", face_up |-> TRUE, col |-> 0, row |-> 0]>>,
      draw_pile |-> <<>>, solve_sequence |-> <<>>],
     [foundation_card |-> "7H",
      tableau |-> <<[face_up |-> TRUE, col |-> 6, row |-> 0]>>,
      draw_pile |-> <<>>, solve_sequence |-> <<>>],
     [foundation_card |-> "7H",
      tableau |-> <<[code |-> "6S", face_up |-> TRUE, row |-> 0]>>,
      draw_pile |-> <<>>, solve_sequence |-> <<>>]}

\* the apply_config_changes blocks the content model may send: none, a
\* mechanics or visual section that passes the schema, one that does not,
\* and a block without updated_config
ConfigBlocks ==
    {None,
     [config_section |-> "mechanics", updated_config |-> [input_type |-> "drag"],
      changes_summary |-> "drag"],
     [config_section |-> "mechanics", updated_config |-> [input_type |-> "swipe"],
      changes_summary |-> "swipe"],
     [config_section |-> "visual", updated_config |-> [ui_theme |-> "neon"],
      changes_summary |-> "neon"],
     [config_section |-> "visual", changes_summary |-> "nothing"]}

\* max(card["col"] for card in tableau) + 1, 1 for an empty tableau
RECURSIVE MaxCol(_, _)
MaxCol(tableau, i) ==
    IF i > Len(tableau) THEN 0 ELSE Max2(tableau[i].col, MaxCol(tableau, i + 1))

\* GridConfig(cell_width=max(56, min(90, int(360 // num_cols))), cell_height=110,
\* origin_x=0.5, origin_y=0.18)
LayoutGrid(num_cols) ==
    [cell_width |-> Max2(56, Min2(90, 360 \div num_cols)), cell_height |-> 110,
     origin_x |-> 50, origin_y |-> 18]

\* the layout the handlers build from a tool result and pass to LevelLayout
LayoutArguments(tool_result, grid) ==
    [f \in ({"foundation_card"} \cap DOMAIN tool_result) \cup {"tableau", "draw_pile", "grid"} |->
        CASE f = "foundation_card" -> tool_result.foundation_card
          [] f = "tableau" -> Get(tool_result, "tableau", <<>>)
          [] f = "draw_pile" -> Get(tool_result, "draw_pile", <<>>)
          [] f = "grid" -> grid]

\* the handler's answer: status, the layout, the configuration changes
Answer(status, layout, config_changes) ==
    [status |-> status, layout |-> layout, config_changes |-> config_changes]

\* from the tool result on: the column count, the validation, the payload.
\* A card without col makes the column count raise outside the try block.
LayoutAnswer(tool_result) ==
    IF tool_result = None THEN Answer(500, None, None)
    ELSE IF \E i \in 1..Len(Get(tool_result, "tableau", <<>>)) :
                "col" \notin DOMAIN tool_result.tableau[i]
    THEN Answer(500, None, None)
    ELSE IF LayoutErrors(LayoutArguments(tool_result,
                LayoutGrid(MaxCol(Get(tool_result, "tableau", <<>>), 1) + 1))) # {}
    THEN Answer(422, None, None)
    ELSE Answer(200,
                LevelLayout(LayoutArguments(tool_result,
                    LayoutGrid(MaxCol(Get(tool_result, "tableau", <<>>), 1) + 1))),
                None)

\* key: ANTHROPIC_API_KEY is set; api_ok: client.messages.create returned
describe_gameplay(key, api_ok, tool_result) ==
    IF ~key \/ ~api_ok THEN Answer(500, None, None)
    ELSE LayoutAnswer(tool_result)

visual_layout(category, key, api_ok, tool_result, config_changes) ==
    IF ~key \/ ~api_ok THEN Answer(500, None, None)
    ELSE IF category \in ConfigCategories
    THEN IF config_changes = None THEN Answer(500, None, None)
         ELSE Answer(200, None,
                     [section |-> Get(config_changes, "config_section", None),
                      updated_config |-> Get(config_changes, "updated_config", None)])
    ELSE LayoutAnswer(tool_result)

DescribeGameplay ==
    /\ \E key \in BOOLEAN, api_ok \in BOOLEAN, tool_result \in LayoutBlocks :
          \E out \in {describe_gameplay(key, api_ok, tool_result)} :
              /\ req' = [section |-> "describe_gameplay", key |-> key, api_ok |-> api_ok,
                         tool_result |-> tool_result]
              /\ res' = out
    /\ UNCHANGED <<cur, rng, first>>
    /\ UNCHANGED fvars

VisualLayout ==
    /\ \E category \in Categories, key \in BOOLEAN, api_ok \in BOOLEAN,
          tool_result \in LayoutBlocks, config_changes \in ConfigBlocks :
          \E out \in {visual_layout(category, key, api_ok, tool_result, config_changes)} :
              /\ req' = [section |-> "visual_layout", category |-> category, key |-> key,
                         api_ok |-> api_ok, tool_result |-> tool_result,
                         config_changes |-> config_changes]
              /\ res' = out
    /\ UNCHANGED <<cur, rng, first>>
    /\ UNCHANGED fvars

InitContent ==
    /\ cur = NoRequest
    /\ req = NoRequest
    /\ res = NoResponse
    /\ rng = 0
    /\ first = [set |-> FALSE]
    /\ InitFiles

NextContent == DescribeGameplay \/ VisualLayout

SpecContent == InitContent /\ [][NextContent]_vars

(***************************************************************************)
(* Claims about the content-model handlers (SpecContent).                  *)
(***************************************************************************)
\* C22: every structured result of the content model that a handler returns
\* (a level layout, an updated configuration section) has passed the schema
\* validation.
C22_ResultsValidated ==
    (req.section \in {"describe_gameplay", "visual_layout"} /\ res.status = 200) =>
        /\ res.layout # None => LayoutErrors(res.layout) = {}
        /\ res.config_changes # None =>
              /\ res.config_changes.section \in Sections
              /\ res.config_changes.updated_config # None
              /\ ValidationErrors(res.config_changes.section,
                                   res.config_changes.updated_config) = {}

(***************************************************************************)
(* Further claims about the run builder and the run registry (Spec).       *)
(***************************************************************************)
\* a successful build in a second in which an earlier build already made the
\* run directory
SecondBuild ==
    /\ GenerateStep /\ last'.status = 200
    /\ Exists(runs, strftime(now))

\* C23: two builds within the same second get the same run identifier and
\* the second overwrites the first: afterwards mechanics.json, levels.json,
\* visual.json and index.html of that directory are those of the second
\* build, and the second caller is given the identifier the first was given.
C23_SecondOverwrites ==
    [][SecondBuild =>
          /\ last'.run_id = strftime(now)
          /\ runs'[last'.run_id]["mechanics.json"].json = MechanicsConfig(last'.input.mechanics)
          /\ runs'[last'.run_id]["levels.json"].json = LevelsConfig(last'.input.levels)
          /\ runs'[last'.run_id]["visual.json"].json = VisualConfig(last'.input.visual)
          /\ Exists(runs'[last'.run_id], "index.html")
          /\ runs'[last'.run_id]["index.html"].html.json.mechanics
                = MechanicsConfig(last'.input.mechanics)
          /\ runs'[last'.run_id]["index.html"].html.json.levels
                = LevelsConfig(last'.input.levels)
          /\ \A f \in DOMAIN VisualDefaults :
                runs'[last'.run_id]["index.html"].html.json.visual[f]
                  = IF \E i \in 1..Len(ASSET_SLOTS) :
                          ASSET_SLOTS[i].image = f /\ Exists(assets, ASSET_SLOTS[i].name)
                    THEN b64encode(assets[ASSET_SLOTS[CHOOSE i \in 1..Len(ASSET_SLOTS) :
                                                        ASSET_SLOTS[i].image = f].name])
                    ELSE VisualConfig(last'.input.visual)[f]]_vars

\* C23 witness: a build without a seed record succeeded in the directory an
\* earlier build of the same second had made with a seed record and other
\* sections.
C23_Witness ==
    /\ Built /\ last.seed = None
    /\ Exists(runs[last.run_id], "seed.json")
    /\ runs[last.run_id]["seed.json"].json.values.mechanics
          # runs[last.run_id]["mechanics.json"].json

\* C24: placeholder synthesis gives every slot that lacks a file a
\* solid-colour image of the slot's size, with the fixed default colour when
\* the visual defaults or the slot's colour in them cannot be used: it does
\* not fail, and after it every slot has a file.
C24_PlaceholdersComplete ==
    [][StartupStep =>
          /\ last'.status = 200
          /\ \A i \in 1..Len(ASSET_SLOTS) :
                /\ Exists(assets', ASSET_SLOTS[i].name)
                /\ ~Exists(assets, ASSET_SLOTS[i].name) =>
                      /\ IsPlaceholder(assets'[ASSET_SLOTS[i].name])
                      /\ assets'[ASSET_SLOTS[i].name].size = ASSET_SLOTS[i].size]_vars

\* the sections of the build that returned, as the registry and the play
\* route answer for its identifier right after it
RoundTrip ==
    /\ \E i \in 1..Len(list_runs(runs)) :
          list_runs(runs)[i].run_id = last.run_id /\ list_runs(runs)[i].has_build
    /\ get_run(runs, last.run_id).status = 200
    /\ {"mechanics", "levels", "visual"} \subseteq DOMAIN get_run(runs, last.run_id).body
    /\ get_run(runs, last.run_id).body.mechanics = MechanicsConfig(last.input.mechanics)
    /\ get_run(runs, last.run_id).body.levels = LevelsConfig(last.input.levels)
    /\ get_run(runs, last.run_id).body.visual = VisualConfig(last.input.visual)
    /\ play_run(runs, last.run_id).status = 200
    /\ play_run(runs, last.run_id).body = runs[last.run_id]["index.html"]

SeedRoundTrip ==
    /\ "seed" \in DOMAIN get_run(runs, last.run_id).body
    /\ get_run(runs, last.run_id).body.seed = last.seed

\* C28: after a build returns with status ready, list() has an entry for its
\* run identifier with has_build true, get(run_id) returns mechanics, levels
\* and visual equal to the validated structures and seed equal to the seed
\* record when one was supplied, and the play route serves index.html.
C28_BuildRoundTrip ==
    Built => (RoundTrip /\ (last.seed # None => SeedRoundTrip))

ConfigFiles == {"mechanics.json", "levels.json", "visual.json"}

\* C30: in every reachable state a run directory that holds index.html also
\* holds mechanics.json, levels.json and visual.json, and for every run whose
\* list entry has has_build true get(run_id) returns the three sections.
C30_BuiltRunComplete ==
    /\ \A id \in DOMAIN runs :
          Exists(runs[id], "index.html") => ConfigFiles \subseteq DOMAIN runs[id]
    /\ \A id \in DOMAIN runs :
          RunEntry(runs, id).has_build
              => /\ get_run(runs, id).status = 200
                 /\ {"mechanics", "levels", "visual"} \subseteq DOMAIN get_run(runs, id).body

\* C30 witness: a build has just written its run next to a directory that
\* holds no index.html.
C30_Witness ==
    /\ Built
    /\ Exists(runs[last.run_id], "index.html")
    /\ \E id \in DOMAIN runs : ~Exists(runs[id], "index.html")

(***************************************************************************)
(* app.py: generate, statement by statement, next to the processes that    *)
(* write the Asset Store (SpecRace).  The handlers of the server run one   *)
(* at a time on its event loop, so approve and replace act only while no   *)
(* build is in progress; scripts/generate_default_assets.py is a process   *)
(* of its own and its iterations fall anywhere between the statements of   *)
(* the build.  cur is the frame of the build in progress, res its answer.  *)
(***************************************************************************)
NoBuild == cur = NoRequest

\* the handler up to the loop over ASSET_SLOTS
BuildStart ==
    /\ NoBuild /\ res = NoResponse
    /\ \E b \in BuildInputs, seed \in Seeds :
          IF BuildInvalid(b)
          THEN /\ res' = [status |-> 422, errors |-> ReportedErrors(b)]
               /\ UNCHANGED <<cur, runs>>
          ELSE \E run_id \in {strftime(now)} :
                  /\ runs' = Put(runs, run_id, SaveConfigs(RunFolder(runs, run_id), b, seed))
                  /\ IF ~template
                     THEN res' = [status |-> 500, run_id |-> run_id] /\ UNCHANGED cur
                     ELSE /\ cur' = [section |-> "build", slot |-> 1, at |-> "read", b |-> b,
                                     run_id |-> run_id, visual_dict |-> VisualConfig(b.visual)]
                          /\ UNCHANGED res
    /\ UNCHANGED <<req, rng, first, assets, history, now, defaults, template, last,
                   overwritten, script, ops>>

\* if png_path.exists(): visual_dict[...] = b64encode(png_path.read_bytes())
BuildRead ==
    /\ ~NoBuild /\ cur.slot <= Len(ASSET_SLOTS) /\ cur.at = "read"
    /\ cur' = IF Exists(assets, ASSET_SLOTS[cur.slot].name)
              THEN [cur EXCEPT !.visual_dict[ASSET_SLOTS[cur.slot].image] =
                                   b64encode(assets[ASSET_SLOTS[cur.slot].name]),
                               !.at = "copy"]
              ELSE [cur EXCEPT !.slot = cur.slot + 1]
    /\ UNCHANGED <<req, res, rng, first, fvars>>

\* shutil.copy2(png_path, run_assets / ...): the file as it is now
BuildCopy ==
    /\ ~NoBuild /\ cur.slot <= Len(ASSET_SLOTS) /\ cur.at = "copy"
    /\ runs' = Put(runs, cur.run_id,
                   Put(runs[cur.run_id], ASSET_SLOTS[cur.slot].copy,
                       assets[ASSET_SLOTS[cur.slot].name]))
    /\ cur' = [cur EXCEPT !.slot = cur.slot + 1, !.at = "read"]
    /\ UNCHANGED <<req, res, rng, first, assets, history, now, defaults, template, last,
                   overwritten, script, ops>>

\* the handler after the loop: index.html and the answer
BuildFinish ==
    /\ ~NoBuild /\ cur.slot > Len(ASSET_SLOTS)
    /\ runs' = Put(runs, cur.run_id,
                   Put(runs[cur.run_id], "index.html", OutputHtml(cur.b, cur.visual_dict)))
    /\ res' = [status |-> 200, run_id |-> cur.run_id]
    /\ cur' = NoRequest
    /\ UNCHANGED <<req, rng, first, assets, history, now, defaults, template, last,
                   overwritten, script, ops>>

ApproveOutsideBuild == NoBuild /\ AssetApprove

ReplaceOutsideBuild == NoBuild /\ ReplaceAssets

PlayOutsideBuild == NoBuild /\ PlayRun

InitRace ==
    /\ cur = NoRequest
    /\ req = NoRequest
    /\ res = NoResponse
    /\ rng = 0
    /\ first = [set |-> FALSE]
    /\ assets \in InitialStores
    /\ history = <<>>
    /\ runs = <<>>
    /\ now = 0
    /\ defaults = Unreadable
    /\ template \in BOOLEAN
    /\ last = NoOp
    /\ overwritten = {}
    /\ script = [pc |-> 0, ts |-> 0]
    /\ ops = 0

NextRace ==
    \/ BuildStart
    \/ BuildRead
    \/ BuildCopy
    \/ BuildFinish
    \/ ApproveOutsideBuild
    \/ ReplaceOutsideBuild
    \/ PlayOutsideBuild
    \/ ScriptStart
    \/ ScriptStep

SpecRace == InitRace /\ [][NextRace]_vars

\* C29: for every slot whose file exists when a build reads it, the copy
\* assets/<slot>.png in the run directory and the payload embedded in the
\* run's index.html encode the same bytes, also when approve, replace or the
\* default-asset script write the Asset Store while the build goes on.
C29_CopyMatchesPayload ==
    res.status = 200 =>
        \A i \in 1..Len(ASSET_SLOTS) :
            Exists(runs[res.run_id], ASSET_SLOTS[i].copy)
                => EmbeddedVisual(runs[res.run_id])[ASSET_SLOTS[i].image]
                      = b64encode(runs[res.run_id][ASSET_SLOTS[i].copy])

====
